---- MODULE Spec2Model ----
(***************************************************************************)
(* Sensor relay and capture gating of the two Flask-SocketIO servers of    *)
(* the repository and of the browser pages they serve:                     *)
(*   "photo"  src/photo_capture_gyro_logics3.0.py   (gated phone capture)  *)
(*   "relay"  src/phone_pc_view14[worked_proparly].py (frame relay, PC     *)
(*            capture)                                                     *)
(* Both servers are created with SocketIO(app, ...) defaults and run by    *)
(* socketio.run without eventlet/gevent being installed, so every event    *)
(* handler runs in a thread of its own: handlers are modelled as           *)
(* sequences of atomic steps, one per access to shared state (the global   *)
(* live-state dictionary, the files of DATA_DIR, the connections), and     *)
(* the steps of different handler invocations interleave freely.           *)
(*                                                                         *)
(* Numbers: every sensor component is an integer count of thousandths;     *)
(* the envelope GYRO_RANGES is in millionths (its literals rounded to six  *)
(* decimals, which decides the same 2-decimal vectors).                    *)
(***************************************************************************)
EXTENDS Integers, Sequences, FiniteSets, TLC

\* ------------------------------------------------------------- bounds
\* handler invocations (events received by the server) in one behaviour
MaxEvents == 2
\* last value of the clock, in seconds of strftime("%Y%m%d_%H%M%S")
MaxClock == 1

\* ------------------------------------------------------------- numbers
Abs(n) == IF n < 0 THEN -n ELSE n

\* thousandths -> millionths
Micro(t) == t * 1000

\* Nearest multiple of 0.01 of a value given in thousandths. A value that
\* lies exactly half way goes to the even hundredth (Python 3 round()).
RoundHundredth(t) ==
    LET r == t % 10
        lo == t - r
    IN  IF r < 5 THEN lo
        ELSE IF r > 5 THEN lo + 10
        ELSE IF (lo \div 10) % 2 = 0 THEN lo ELSE lo + 10

\* JS: parseFloat((v || 0).toFixed(2)); toFixed rounds a half away from zero
ToFixed2(t) ==
    LET a == Abs(t)
        r == a % 10
        m == IF r < 5 THEN a - r ELSE a - r + 10
    IN  IF t < 0 THEN -m ELSE m

Axes == {"x", "y", "z"}

\* a JSON value of an inbound event field: a number, a value float() does
\* not convert (a string that is no number literal, null, a list), no field
Num(v) == [k |-> "num", v |-> v]
NotNumeric == [k |-> "str", v |-> 0]
Missing == [k |-> "missing", v |-> 0]

\* data[axis]: no default for a missing key
GetNoDefault(c) == c

\* data.get(axis, 0)
Get(c) == IF c.k = "missing" THEN Num(0) ELSE c

\* float(...) raises on a value that is not numeric
FloatRaises(c) == Get(c).k # "num"

\* round(float(data.get(axis, 0)), 2)
Round2(c) == RoundHundredth(Get(c).v)

ZeroVector == [x |-> 0, y |-> 0, z |-> 0]

\* ------------------------------------------------------------- envelope
GYRO_RANGES ==
    [x |-> [mean |-> -453333, std_dev |-> 227025],
     y |-> [mean |-> 5246667, std_dev |-> 2060253],
     z |-> [mean |-> 7680000, std_dev |-> 1555019]]

checkGyroRangeStrict(g, R) ==
    /\ Abs(Micro(g.x) - R.x.mean) < R.x.std_dev
    /\ Abs(Micro(g.y) - R.y.mean) < R.y.std_dev
    /\ Abs(Micro(g.z) - R.z.mean) < R.z.std_dev

\* const inRange = Math.abs(x - mean) <= std_dev && ... (x, then y, then z)
checkGyroRange(g, R) ==
    /\ Abs(Micro(g.x) - R.x.mean) <= R.x.std_dev
    /\ Abs(Micro(g.y) - R.y.mean) <= R.y.std_dev
    /\ Abs(Micro(g.z) - R.z.mean) <= R.z.std_dev

\* ------------------------------------------------------------- inputs
\* connections; each attaches at most once (a reconnect gets a new sid)
Sids == {"a", "b"}

\* image payloads: two JPEG data URLs a page can produce, and one string
\* that does not decode as an image
PageFrames == {"f1", "f2"}
Junk == "junk"
\* the frame on the canvas of the photo page at a capture
CanvasFrames == {"f1"}
\* capture_image payloads of a client that is not the page's capture button
RawFrames == {Junk, "f2"}
NoFrame == "None"

\* no decoding at all: whatever arrives is written out
DecodableAlways(f) == TRUE

\* base64.b64decode + Image.open succeed
Decodable(f) == f \in PageFrames

\* sensor readings of a phone, in thousandths, before toFixed(2)
sIn == [x |-> -454, y |-> 5246, z |-> 7684]
sOut == [x |-> 3000, y |-> 6500, z |-> 9000]
Samples == {sIn, sOut}

AsEvent(g) == [x |-> Num(g.x), y |-> Num(g.y), z |-> Num(g.z)]

\* gyro_data payloads no page sends: unrounded components; a non-numeric last
\* component (x and y convert before float(z) raises); no x at all
RawVectors ==
    {AsEvent(sIn),
     [x |-> Num(-450), y |-> Num(5250), z |-> NotNumeric],
     [x |-> Missing, y |-> Num(5250), z |-> Num(7680)]}
NoVector == AsEvent(ZeroVector)

\* the page has sent no vector since startGyroscope
NoneSent == [sent |-> FALSE, g |-> ZeroVector]

\* ------------------------------------------------------------- state
VARIABLES
    app,                \* which of the two servers runs: "photo" or "relay"
    conn,               \* sid -> "new" | "attached" | "gone"
    gyroActive,         \* sid -> gyroActive of the phone page
    captureBtnDisabled, \* sid -> captureBtn.disabled of the phone page
    lastVector,         \* sid -> last vector the page sent since startGyroscope
    pending,            \* sid -> a callback registered by an interval tick has not run
    threads,            \* handler invocations, in receipt order
    camera,             \* live state: ['camera']
    gyroscope,          \* live state: ['gyroscope']
    timestamp,          \* live state: ['timestamp']
    now,                \* the clock, in ticks
    images,             \* DATA_DIR/capture_<stem>.jpg, by stem
    metas,              \* DATA_DIR/gyro_<stem>.json, by stem
    delivered,          \* sid -> the messages the connection has received
    probe               \* the call of a pure function under evaluation

vars == <<app, conn, gyroActive, captureBtnDisabled, lastVector, pending, threads,
          camera, gyroscope, timestamp, now, images, metas, delivered, probe>>

\* what no action of the servers and their pages changes
static == <<app, probe>>
NoProbe == [fn |-> "none"]

clientVars == <<gyroActive, captureBtnDisabled, lastVector, pending>>
liveVars == <<camera, gyroscope, timestamp>>
fileVars == <<images, metas>>

Stems == 0..MaxClock

\* datetime.now().isoformat() has microseconds: the value set by one update
\* is told apart from every other by the handler invocation that took it
Stamp(t) == [at |-> now, by |-> t]

attached == {s \in Sids : conn[s] = "attached"}

\* the page a connection runs: '/' (phone) or '/pc'
PageOf(s) == IF s = "a" THEN "phone" ELSE "pc"

NoFile == [st |-> "absent", frame |-> NoFrame, by |-> 0]
NoMeta == [st |-> "absent", timestamp |-> [at |-> 0, by |-> 0], image_file |-> 0,
           gyroscope |-> ZeroVector, by |-> 0]

Msg(ev, vec, frame, tid) == [ev |-> ev, vec |-> vec, frame |-> frame, tid |-> tid]

\* emit(..., broadcast=True) reaches every attached connection, the sender
\* included; emit(..., broadcast=False) reaches the sender, when still attached
Emit(to, m) ==
    [s \in Sids |-> IF s \in to /\ s \in attached
                    THEN Append(delivered[s], m) ELSE delivered[s]]

\* preview.src of the PC page: the last truthy frame of a camera_update
RECURSIVE LastFrame(_)
LastFrame(log) ==
    IF log = <<>> THEN NoFrame
    ELSE IF log[Len(log)].ev = "camera_update" /\ log[Len(log)].frame # NoFrame
         THEN log[Len(log)].frame
         ELSE LastFrame(SubSeq(log, 1, Len(log) - 1))

\* a page whose capture button lacks the disabled attribute
StartArmed(a) ==
    /\ app = a
    /\ conn = [s \in Sids |-> "new"]
    /\ gyroActive = [s \in Sids |-> FALSE]
    /\ captureBtnDisabled = [s \in Sids |-> FALSE]
    /\ lastVector = [s \in Sids |-> NoneSent]
    /\ pending = [s \in Sids |-> FALSE]
    /\ threads = <<>>
    /\ camera = NoFrame
    /\ gyroscope = ZeroVector
    /\ timestamp = [at |-> 0, by |-> 0]
    /\ now = 0
    /\ images = [k \in Stems |-> NoFile]
    /\ metas = [k \in Stems |-> NoMeta]
    /\ delivered = [s \in Sids |-> <<>>]

\* the state after the module of server a is loaded and before any connection
Start(a) ==
    /\ app = a
    /\ conn = [s \in Sids |-> "new"]
    /\ gyroActive = [s \in Sids |-> FALSE]
    /\ captureBtnDisabled = [s \in Sids |-> TRUE]
    /\ lastVector = [s \in Sids |-> NoneSent]
    /\ pending = [s \in Sids |-> FALSE]
    /\ threads = <<>>
    /\ camera = NoFrame
    /\ gyroscope = ZeroVector
    /\ timestamp = [at |-> 0, by |-> 0]
    /\ now = 0
    /\ images = [k \in Stems |-> NoFile]
    /\ metas = [k \in Stems |-> NoMeta]
    /\ delivered = [s \in Sids |-> <<>>]

Init ==
    /\ Start("photo")
    /\ probe = NoProbe

\* ------------------------------------------------------------- transport
ConnectionStatus == Msg("connection_status", ZeroVector, NoFrame, 0)

\* a handle_connect that also sends the live vector to the new connection
ConnectReplay(s) ==
    /\ conn[s] = "new"
    /\ conn' = [conn EXCEPT ![s] = "attached"]
    /\ delivered' = [delivered EXCEPT ![s] =
                        <<ConnectionStatus, Msg("gyro_update", gyroscope, NoFrame, 0)>>]
    /\ UNCHANGED <<static, clientVars, threads, liveVars, now, fileVars>>

\* a handle_connect that restarts the live state
ConnectReset(s) ==
    /\ conn[s] = "new"
    /\ conn' = [conn EXCEPT ![s] = "attached"]
    /\ delivered' = [delivered EXCEPT ![s] = Append(@, ConnectionStatus)]
    /\ camera' = NoFrame
    /\ gyroscope' = ZeroVector
    /\ timestamp' = [at |-> 0, by |-> 0]
    /\ UNCHANGED <<static, clientVars, threads, now, fileVars>>

\* handle_connect: emit('connection_status', ...) to the new connection
Connect(s) ==
    /\ conn[s] = "new"
    /\ conn' = [conn EXCEPT ![s] = "attached"]
    /\ delivered' = [delivered EXCEPT ![s] =
                        Append(@, Msg("connection_status", ZeroVector, NoFrame, 0))]
    /\ UNCHANGED <<static, clientVars, threads, liveVars, now, fileVars>>

\* a handle_disconnect that ends the handlers of the connection's events
DisconnectCancels(s) ==
    /\ conn[s] = "attached"
    /\ conn' = [conn EXCEPT ![s] = "gone"]
    /\ threads' = [t \in 1..Len(threads) |->
                      IF threads[t].sid = s /\ threads[t].pc # "done"
                      THEN [threads[t] EXCEPT !.pc = "done", !.result = "error"]
                      ELSE threads[t]]
    /\ UNCHANGED <<static, clientVars, liveVars, now, fileVars, delivered>>

\* handle_disconnect: prints only
Disconnect(s) ==
    /\ conn[s] = "attached"
    /\ conn' = [conn EXCEPT ![s] = "gone"]
    /\ UNCHANGED <<static, clientVars, threads, liveVars, now, fileVars, delivered>>

\* datetime.now() advances
Tick ==
    /\ now < MaxClock
    /\ now' = now + 1
    /\ UNCHANGED <<static, conn, clientVars, threads, liveVars, fileVars, delivered>>

\* the server receives an event and starts its handler
NewThread(kind, sid, via, vec, frame) ==
    [kind |-> kind, sid |-> sid, via |-> via, vec |-> vec, frame |-> frame,
     pc |-> "start", gyro_data |-> ZeroVector, stem |-> 0,
     ts |-> [at |-> 0, by |-> 0],
     gv |-> ZeroVector, acceptG |-> gyroscope, acceptC |-> camera,
     result |-> "none"]

Receive(kind, sid, via, vec, frame) ==
    /\ Len(threads) < MaxEvents
    /\ threads' = Append(threads, NewThread(kind, sid, via, vec, frame))

\* ------------------------------------------------------------- pages
Phone(s) == s \in attached /\ PageOf(s) = "phone"

\* startGyroscope up to gyroActive = true (a denied permission returns first)
startGyroscope(s) ==
    /\ Phone(s)
    /\ ~gyroActive[s]
    /\ gyroActive' = [gyroActive EXCEPT ![s] = TRUE]
    /\ UNCHANGED <<static, conn, captureBtnDisabled, lastVector, pending, threads,
                   liveVars, now, fileVars, delivered>>

\* stopGyroscope: gyroActive = false; clearInterval(gyroInterval); the photo page
\* also disables the capture button. The {once: true} listeners and the 10 ms
\* timer of the last tick stay registered
stopGyroscope(s) ==
    /\ Phone(s)
    /\ gyroActive[s]
    /\ gyroActive' = [gyroActive EXCEPT ![s] = FALSE]
    /\ captureBtnDisabled' =
          IF app = "photo" THEN [captureBtnDisabled EXCEPT ![s] = TRUE]
          ELSE captureBtnDisabled
    /\ lastVector' = [lastVector EXCEPT ![s] = NoneSent]
    /\ UNCHANGED <<static, conn, pending, threads, liveVars, now, fileVars, delivered>>

\* one tick of gyroInterval: if (!gyroActive) return; captureAndSend() registers
\* the devicemotion and deviceorientation listeners and the fallback timer
gyroTick(s) ==
    /\ Phone(s)
    /\ gyroActive[s]
    /\ ~pending[s]
    /\ pending' = [pending EXCEPT ![s] = TRUE]
    /\ UNCHANGED <<static, conn, gyroActive, captureBtnDisabled, lastVector, threads,
                   liveVars, now, fileVars, delivered>>

\* a registered callback that emits nothing: a listener whose event carries no
\* values, the timer when dataType is no longer 'none'
callbackSilent(s) ==
    /\ Phone(s)
    /\ pending[s]
    /\ pending' = [pending EXCEPT ![s] = FALSE]
    /\ UNCHANGED <<static, conn, gyroActive, captureBtnDisabled, lastVector, threads,
                   liveVars, now, fileVars, delivered>>

\* gyroData = {x: parseFloat(v.toFixed(2)), ...}
toGyroData(reading) ==
    [x |-> ToFixed2(reading.x), y |-> ToFixed2(reading.y), z |-> ToFixed2(reading.z)]

\* captureBtn.disabled = !inRange
ButtonAfterLatched(old, g) == old /\ ~checkGyroRange(g, GYRO_RANGES)
ButtonAfter(old, g) == ~checkGyroRange(g, GYRO_RANGES)

\* one callback registered by a tick (motionHandler, orientationHandler or the
\* timer; none of them reads gyroActive): socket.emit('gyro_data', gyroData);
\* photo page: checkGyroRange(gyroData). Other callbacks of the tick may remain
sendGyro(s, reading) ==
    LET g == toGyroData(reading) IN
    /\ Phone(s)
    /\ pending[s]
    /\ \E more \in BOOLEAN : pending' = [pending EXCEPT ![s] = more]
    /\ Receive("gyro", s, "page", AsEvent(g), NoFrame)
    /\ lastVector' = [lastVector EXCEPT ![s] = [sent |-> TRUE, g |-> g]]
    /\ captureBtnDisabled' =
          IF app = "photo"
          THEN [captureBtnDisabled EXCEPT ![s] = ButtonAfter(@, g)]
          ELSE captureBtnDisabled
    /\ UNCHANGED <<static, conn, gyroActive, liveVars, now, fileVars, delivered>>

\* photo page captureImage, the branch that emits: the video is ready and
\* the capture button is enabled; the frame is canvas.toDataURL('image/jpeg')
captureImagePhone(s, f) ==
    /\ app = "photo"
    /\ Phone(s)
    /\ ~captureBtnDisabled[s]
    /\ Receive("capture", s, "page", NoVector, f)
    /\ UNCHANGED <<static, conn, clientVars, liveVars, now, fileVars, delivered>>

\* relay PC page captureImage: if (preview.src) emit capture_image
captureImagePC(s) ==
    /\ app = "relay"
    /\ s \in attached
    /\ PageOf(s) = "pc"
    /\ LastFrame(delivered[s]) # NoFrame
    /\ Receive("capture", s, "page", NoVector, LastFrame(delivered[s]))
    /\ UNCHANGED <<static, conn, clientVars, liveVars, now, fileVars, delivered>>

\* relay phone page, camera interval: socket.emit('camera_frame', {frame})
sendFrame(s, f) ==
    /\ app = "relay"
    /\ Phone(s)
    /\ Receive("frame", s, "page", NoVector, f)
    /\ UNCHANGED <<static, conn, clientVars, liveVars, now, fileVars, delivered>>

\* events no page function sends (typed into the console of the PC page, or
\* sent by any other socket.io client): the handlers take what the socket delivers
Raw(s) == s \in attached /\ PageOf(s) = "pc"

rawGyro(s, v) ==
    /\ Raw(s)
    /\ Receive("gyro", s, "raw", v, NoFrame)
    /\ UNCHANGED <<static, conn, clientVars, liveVars, now, fileVars, delivered>>

rawCapture(s, f) ==
    /\ Raw(s)
    /\ Receive("capture", s, "raw", NoVector, f)
    /\ UNCHANGED <<static, conn, clientVars, liveVars, now, fileVars, delivered>>

rawFrame(s) ==
    /\ app = "relay"
    /\ Raw(s)
    /\ Receive("frame", s, "raw", NoVector, Junk)
    /\ UNCHANGED <<static, conn, clientVars, liveVars, now, fileVars, delivered>>

\* ------------------------------------------------------------- handlers
Tids == 1..Len(threads)

\* a server that handles one event after the other (async_handlers=False)
AtInReceiptOrder(t, kind, pc) ==
    /\ threads[t].kind = kind /\ threads[t].pc = pc
    /\ \A u \in 1..(t - 1) : threads[u].pc = "done"

\* the handler invocation t is a handler of that kind about to run that
\* statement; every invocation has a thread of its own and runs when scheduled
At(t, kind, pc) == threads[t].kind = kind /\ threads[t].pc = pc

Goto(t, pc) == [threads[t] EXCEPT !.pc = pc]

Finish(t, result) == [threads[t] EXCEPT !.pc = "done", !.result = result]

\* the connections an error message of the handler for sid reaches
ErrorTargets(sid) == IF app = "photo" THEN Sids ELSE {sid}

\* a capture_success sent with broadcast=True on both servers
SuccessTargetsBroadcast(sid) == Sids

\* the connections capture_success reaches
SuccessTargets(sid) == IF app = "photo" THEN Sids ELSE {sid}

\* the connections gyro_update and camera_update reach (broadcast=True)
UpdateTargetsSenderOnly(sid) == {sid}
UpdateTargets(sid) == Sids

\* nearest multiple of 0.1, half to even: round(..., 1)
RoundTenth(t) ==
    LET r == t % 100
        lo == t - r
    IN  IF r < 50 THEN lo
        ELSE IF r > 50 THEN lo + 100
        ELSE IF (lo \div 100) % 2 = 0 THEN lo ELSE lo + 100

\* a server that rounds to one digit where the page rounds to two
RoundVectorTenth(v) ==
    [x |-> RoundTenth(Get(v.x).v), y |-> RoundTenth(Get(v.y).v),
     z |-> RoundTenth(Get(v.z).v)]

\* gyro_data = {'x': round(float(data.get('x', 0)), 2), ...}
RoundVectorIdentity(v) == [x |-> Get(v.x).v, y |-> Get(v.y).v, z |-> Get(v.z).v]
RoundVector(v) == [x |-> Round2(v.x), y |-> Round2(v.y), z |-> Round2(v.z)]

VectorRaises(v) == \E a \in Axes : FloatRaises(v[a])

\* the axes in the order the dictionary literal converts them
AxisOrder == <<"x", "y", "z">>

\* the components converted before the first float() that raises are stored
VectorAfterRaisePartial(v) ==
    LET bad == CHOOSE i \in 1..3 :
                  /\ FloatRaises(v[AxisOrder[i]])
                  /\ \A j \in 1..(i - 1) : ~FloatRaises(v[AxisOrder[j]])
    IN  [a \in Axes |->
            IF \E j \in 1..(bad - 1) : AxisOrder[j] = a THEN Round2(v[a])
            ELSE gyroscope[a]]

\* ['gyroscope'] after a float() raised: gyro_data is built whole before it is
\* assigned, so the raise leaves the stored vector as it was
VectorAfterRaise(v) == gyroscope

\* handle_gyro_data: build gyro_data; gyro_logic_photos['gyroscope'] = gyro_data,
\* or the except branch: emit('gyro_error', ...)
gyroStore(t) ==
    /\ At(t, "gyro", "start")
    /\ IF VectorRaises(threads[t].vec)
       THEN /\ threads' = [threads EXCEPT ![t] = Finish(t, "error")]
            /\ delivered' = Emit(ErrorTargets(threads[t].sid),
                                 Msg("gyro_error", ZeroVector, NoFrame, t))
            /\ gyroscope' = VectorAfterRaise(threads[t].vec)
       ELSE /\ threads' = [threads EXCEPT ![t] =
                  [Goto(t, "stamp") EXCEPT !.gyro_data = RoundVector(threads[t].vec)]]
            /\ gyroscope' = RoundVector(threads[t].vec)
            /\ UNCHANGED delivered
    /\ UNCHANGED <<static, conn, clientVars, camera, timestamp, now, fileVars>>

\* handle_gyro_data: gyro_logic_photos['timestamp'] = datetime.now().isoformat()
gyroStamp(t) ==
    /\ At(t, "gyro", "stamp")
    /\ timestamp' = Stamp(t)
    /\ threads' = [threads EXCEPT ![t] = Goto(t, "emit")]
    /\ UNCHANGED <<static, conn, clientVars, camera, gyroscope, now, fileVars, delivered>>

\* handle_gyro_data: emit('gyro_update', gyro_data, broadcast=True)
gyroEmit(t) ==
    /\ At(t, "gyro", "emit")
    /\ delivered' = Emit(UpdateTargets(threads[t].sid),
                         Msg("gyro_update", threads[t].gyro_data, NoFrame, t))
    /\ threads' = [threads EXCEPT ![t] = Finish(t, "ok")]
    /\ UNCHANGED <<static, conn, clientVars, liveVars, now, fileVars>>

\* a handler that keeps the frame it already has
frameStoreFirstWins(t) ==
    /\ At(t, "frame", "start")
    /\ camera' = IF camera = NoFrame THEN threads[t].frame ELSE camera
    /\ threads' = [threads EXCEPT ![t] = Goto(t, "stamp")]
    /\ UNCHANGED <<static, conn, clientVars, gyroscope, timestamp, now, fileVars, delivered>>

\* handle_camera_frame: sensor_data_with_5['camera'] = data['frame']
frameStore(t) ==
    /\ At(t, "frame", "start")
    /\ camera' = threads[t].frame
    /\ threads' = [threads EXCEPT ![t] = Goto(t, "stamp")]
    /\ UNCHANGED <<static, conn, clientVars, gyroscope, timestamp, now, fileVars, delivered>>

\* handle_camera_frame: sensor_data_with_5['timestamp'] = datetime.now().isoformat()
frameStamp(t) ==
    /\ At(t, "frame", "stamp")
    /\ timestamp' = Stamp(t)
    /\ threads' = [threads EXCEPT ![t] = Goto(t, "emit")]
    /\ UNCHANGED <<static, conn, clientVars, camera, gyroscope, now, fileVars, delivered>>

\* handle_camera_frame: emit('camera_update', {'frame': ...}, broadcast=True)
frameEmit(t) ==
    /\ At(t, "frame", "emit")
    /\ delivered' = Emit(UpdateTargets(threads[t].sid),
                         Msg("camera_update", ZeroVector, threads[t].frame, t))
    /\ threads' = [threads EXCEPT ![t] = Finish(t, "ok")]
    /\ UNCHANGED <<static, conn, clientVars, liveVars, now, fileVars>>

\* timestamp = datetime.now().strftime("%Y%m%d_%H%M%S"): the stem of both files
CaptureStem(t) == now

\* handle_capture_image: decode the payload, open the image, take the stem;
\* a payload that does not decode goes to the except branch
captureOpen(t) ==
    /\ At(t, "capture", "start")
    /\ IF Decodable(threads[t].frame)
       THEN /\ threads' = [threads EXCEPT ![t] =
                  [Goto(t, "save") EXCEPT !.stem = CaptureStem(t)]]
            /\ UNCHANGED delivered
       ELSE /\ threads' = [threads EXCEPT ![t] = Finish(t, "error")]
            /\ delivered' = Emit(ErrorTargets(threads[t].sid),
                                 Msg("capture_error", ZeroVector, NoFrame, t))
    /\ UNCHANGED <<static, conn, clientVars, liveVars, now, fileVars>>

\* what a failed write leaves at its path: the file as it was (the failure
\* came before the file was opened for writing) or a truncated file
FailedWrite == {"untouched", "truncated"}

\* a handler that saves the frame of the live state
SavedImageLive(t) == camera

\* image = Image.open(BytesIO(image_data)): the picture decoded from data['frame']
SavedImage(t) == threads[t].frame

\* a handler that also keeps the saved picture as the latest frame
captureSaveStoring(t) ==
    /\ At(t, "capture", "save")
    /\ images' = [images EXCEPT ![threads[t].stem] =
                     [st |-> "ok", frame |-> SavedImage(t), by |-> t]]
    /\ camera' = threads[t].frame
    /\ threads' = [threads EXCEPT ![t] = Goto(t, "read_ts")]
    /\ UNCHANGED <<static, conn, clientVars, gyroscope, timestamp, now, metas, delivered>>

\* handle_capture_image: image.save(image_path, 'JPEG', ...)
captureSave(t) ==
    /\ At(t, "capture", "save")
    /\ \/ /\ images' = [images EXCEPT ![threads[t].stem] =
                          [st |-> "ok", frame |-> SavedImage(t), by |-> t]]
          /\ threads' = [threads EXCEPT ![t] = Goto(t, "read_ts")]
       \/ /\ \E left \in FailedWrite :
                images' = IF left = "untouched" THEN images
                          ELSE [images EXCEPT ![threads[t].stem] =
                                  [st |-> "truncated", frame |-> NoFrame, by |-> t]]
          /\ threads' = [threads EXCEPT ![t] = Goto(t, "except")]
    /\ UNCHANGED <<static, conn, clientVars, liveVars, now, metas, delivered>>

\* handle_capture_image: gyro_entry, 'timestamp': gyro_logic_photos['timestamp']
captureReadTimestamp(t) ==
    /\ At(t, "capture", "read_ts")
    /\ threads' = [threads EXCEPT ![t] = [Goto(t, "read_gyro") EXCEPT !.ts = timestamp]]
    /\ UNCHANGED <<static, conn, clientVars, liveVars, now, fileVars, delivered>>

\* the vector the metadata record gets: gyro_logic_photos['gyroscope'], read
\* while gyro_entry is built
SnapshotVector(t) == gyroscope

\* handle_capture_image: gyro_entry, 'gyroscope': gyro_logic_photos['gyroscope']
captureReadGyro(t) ==
    /\ At(t, "capture", "read_gyro")
    /\ threads' = [threads EXCEPT ![t] =
                      [Goto(t, "write") EXCEPT !.gv = SnapshotVector(t)]]
    /\ UNCHANGED <<static, conn, clientVars, liveVars, now, fileVars, delivered>>

\* handle_capture_image: with open(gyro_file, 'w') as f: json.dump(gyro_entry, ...)
captureWrite(t) ==
    /\ At(t, "capture", "write")
    /\ \/ /\ metas' = [metas EXCEPT ![threads[t].stem] =
                         [st |-> "ok", timestamp |-> threads[t].ts,
                          image_file |-> threads[t].stem,
                          gyroscope |-> threads[t].gv, by |-> t]]
          /\ threads' = [threads EXCEPT ![t] = Goto(t, "success")]
       \/ /\ \E left \in FailedWrite :
                metas' = IF left = "untouched" THEN metas
                         ELSE [metas EXCEPT ![threads[t].stem] =
                                 [NoMeta EXCEPT !.st = "truncated", !.by = t]]
          /\ threads' = [threads EXCEPT ![t] = Goto(t, "except")]
    /\ UNCHANGED <<static, conn, clientVars, liveVars, now, images, delivered>>

\* handle_capture_image: emit('capture_success', {...})
captureSuccess(t) ==
    /\ At(t, "capture", "success")
    /\ delivered' = Emit(SuccessTargets(threads[t].sid),
                         Msg("capture_success", threads[t].gv, threads[t].frame, t))
    /\ threads' = [threads EXCEPT ![t] = Finish(t, "success")]
    /\ UNCHANGED <<static, conn, clientVars, liveVars, now, fileVars>>

\* handle_capture_image, except branch: emit('capture_error', {...})
captureExcept(t) ==
    /\ At(t, "capture", "except")
    /\ delivered' = Emit(ErrorTargets(threads[t].sid),
                         Msg("capture_error", ZeroVector, NoFrame, t))
    /\ threads' = [threads EXCEPT ![t] = Finish(t, "error")]
    /\ UNCHANGED <<static, conn, clientVars, liveVars, now, fileVars>>

\* ------------------------------------------------------------- behaviours
Handlers ==
    \/ \E t \in Tids : gyroStore(t)
    \/ \E t \in Tids : gyroStamp(t)
    \/ \E t \in Tids : gyroEmit(t)
    \/ \E t \in Tids : captureOpen(t)
    \/ \E t \in Tids : captureSave(t)
    \/ \E t \in Tids : captureReadTimestamp(t)
    \/ \E t \in Tids : captureReadGyro(t)
    \/ \E t \in Tids : captureWrite(t)
    \/ \E t \in Tids : captureSuccess(t)
    \/ \E t \in Tids : captureExcept(t)

Transport ==
    \/ \E s \in Sids : Connect(s)
    \/ \E s \in Sids : Disconnect(s)
    \/ Tick

\* src/photo_capture_gyro_logics3.0.py
Next ==
    \/ Transport
    \/ \E s \in Sids : startGyroscope(s)
    \/ \E s \in Sids : stopGyroscope(s)
    \/ \E s \in Sids : gyroTick(s)
    \/ \E s \in Sids : callbackSilent(s)
    \/ \E s \in Sids, r \in Samples : sendGyro(s, r)
    \/ \E s \in Sids, f \in CanvasFrames : captureImagePhone(s, f)
    \/ \E s \in Sids, v \in RawVectors : rawGyro(s, v)
    \/ \E s \in Sids, f \in RawFrames : rawCapture(s, f)
    \/ Handlers

Spec == Init /\ [][Next]_vars

\* src/phone_pc_view14[worked_proparly].py
InitRelay ==
    /\ Start("relay")
    /\ probe = NoProbe

NextRelay ==
    \/ Transport
    \/ \E s \in Sids : startGyroscope(s)
    \/ \E s \in Sids : stopGyroscope(s)
    \/ \E s \in Sids : gyroTick(s)
    \/ \E s \in Sids : callbackSilent(s)
    \/ \E s \in Sids, r \in Samples : sendGyro(s, r)
    \/ \E s \in Sids, f \in PageFrames : sendFrame(s, f)
    \/ \E s \in Sids : captureImagePC(s)
    \/ \E s \in Sids : rawFrame(s)
    \/ \E t \in Tids : frameStore(t)
    \/ \E t \in Tids : frameStamp(t)
    \/ \E t \in Tids : frameEmit(t)
    \/ Handlers

SpecRelay == InitRelay /\ [][NextRelay]_vars

\* ------------------------------------------------------------- query
\* a get_data that stamps the live state with the time of the poll
get_dataStamping ==
    /\ timestamp' = Stamp(0)
    /\ probe' = [fn |-> "get_data", camera |-> camera, gyroscope |-> gyroscope,
                 timestamp |-> timestamp']
    /\ UNCHANGED <<app, conn, clientVars, threads, camera, gyroscope, now, fileVars,
                   delivered>>

\* GET /api/data: return jsonify(sensor_data_with_5); the response is kept by
\* the polling client (debug=False: the dictionary is serialised in one piece)
get_data ==
    /\ probe' = [fn |-> "get_data", camera |-> camera, gyroscope |-> gyroscope,
                 timestamp |-> timestamp]
    /\ UNCHANGED <<app, conn, clientVars, threads, liveVars, now, fileVars, delivered>>

NextQuery ==
    \/ NextRelay
    \/ get_data

\* the relay server and a client polling /api/data
SpecQuery == InitRelay /\ [][NextQuery]_vars

\* ------------------------------------------------------------- range check
\* a second value of the ranges parameter, whose bounds a reading in
\* thousandths can hit exactly: x (0, 1), y (5, 2), z (8, 1.5)
ScenarioEnvelope ==
    [x |-> [mean |-> 0, std_dev |-> 1000000],
     y |-> [mean |-> 5000000, std_dev |-> 2000000],
     z |-> [mean |-> 8000000, std_dev |-> 1500000]]

RangeEnvelopes == {ScenarioEnvelope, GYRO_RANGES}

\* components on, next to and away from the bounds of both envelopes
RangeComponents ==
    {-1001, -1000, -450, 400, 1000, 1001, 2999, 3000, 6499, 6500, 7000, 7001,
     9000, 9500, 9501}

RangeVectors == [x : RangeComponents, y : RangeComponents, z : RangeComponents]

InitRange ==
    /\ Start("photo")
    /\ probe \in [fn : {"checkGyroRange"}, g : RangeVectors, R : RangeEnvelopes,
                  done : {FALSE}, inRange : {FALSE}]

\* one call of checkGyroRange(gyroData)
evaluateRange ==
    /\ probe.fn = "checkGyroRange"
    /\ ~probe.done
    /\ probe' = [probe EXCEPT !.done = TRUE,
                              !.inRange = checkGyroRange(probe.g, probe.R)]
    /\ UNCHANGED <<app, conn, clientVars, threads, liveVars, now, fileVars, delivered>>

NextRange == evaluateRange

SpecRange == InitRange /\ [][NextRange]_vars

\* ------------------------------------------------------------- rounding
\* components in thousandths: ties of both signs, values next to ties,
\* values that are hundredths already
RoundComponents == {-7685, -455, -454, -125, -5, 0, 4, 5, 15, 125, 5246, 5250, 7684}

RoundInputs == [x : RoundComponents, y : RoundComponents, z : {-125, 5, 7684}]

\* a sensor vector on its way from the phone to the live state: the reading,
\* what the socket carries, what the server stored before and stores now
InitRound ==
    /\ Start("photo")
    /\ probe \in [fn : {"round"}, raw : RoundInputs, via : {"none"}, step : {0},
                  sent : {ZeroVector}, once : {ZeroVector}, stored : {ZeroVector}]

\* motionHandler / orientationHandler: gyroData = {x: parseFloat(v.toFixed(2)), ...}
roundAtProducer ==
    /\ probe.fn = "round" /\ probe.step = 0
    /\ probe' = [probe EXCEPT !.step = 1, !.via = "page", !.sent = toGyroData(probe.raw)]
    /\ UNCHANGED <<app, conn, clientVars, threads, liveVars, now, fileVars, delivered>>

\* a producer that sends the reading as it is
sendUnrounded ==
    /\ probe.fn = "round" /\ probe.step = 0
    /\ probe' = [probe EXCEPT !.step = 1, !.via = "raw", !.sent = probe.raw]
    /\ UNCHANGED <<app, conn, clientVars, threads, liveVars, now, fileVars, delivered>>

\* handle_gyro_data on what the socket carries: gyro_data = {round(float(..), 2)}
roundAtServer ==
    /\ probe.fn = "round" /\ probe.step = 1
    /\ probe' = [probe EXCEPT !.step = 2,
                              !.stored = RoundVector(AsEvent(probe.sent))]
    /\ UNCHANGED <<app, conn, clientVars, threads, liveVars, now, fileVars, delivered>>

\* handle_gyro_data on a gyro_update sent back as gyro_data: the rounding
\* applied to its own result
roundAgain ==
    /\ probe.fn = "round" /\ probe.step = 2
    /\ probe' = [probe EXCEPT !.step = 3, !.once = probe.stored,
                              !.stored = RoundVector(AsEvent(probe.stored))]
    /\ UNCHANGED <<app, conn, clientVars, threads, liveVars, now, fileVars, delivered>>

NextRound ==
    \/ roundAtProducer
    \/ sendUnrounded
    \/ roundAtServer
    \/ roundAgain

SpecRound == InitRound /\ [][NextRound]_vars

\* ------------------------------------------------------------- phone page
\* the sensor controls of MOBILE_TEMPLATE; probe holds the page: cameraActive,
\* gyroActive, currentStream (0 is null), gyroInterval, the text of startBtn,
\* captureBtn.disabled, the streams getUserMedia has opened and those whose
\* tracks still run, and the promises and timers that have not completed
MaxStreams == 2
MaxTasks == 2

\* whether DeviceOrientationEvent.requestPermission is a function
Platforms == {"prompt", "plain"}

TaskKinds == {"getUserMedia_toggle", "getUserMedia_timer", "requestPermission",
              "cameraTimer", "gyroTimer"}

TasksOf(p) ==
    p.tasks["getUserMedia_toggle"] + p.tasks["getUserMedia_timer"]
    + p.tasks["requestPermission"] + p.tasks["cameraTimer"] + p.tasks["gyroTimer"]

PageStart(platform) ==
    [fn |-> "page", platform |-> platform, cameraActive |-> FALSE,
     gyroActive |-> FALSE, currentStream |-> 0, gyroInterval |-> FALSE,
     startBtn |-> "start", captureBtnDisabled |-> TRUE, opened |-> 0, live |-> {},
     tasks |-> [k \in TaskKinds |-> 0]]

InitPage ==
    /\ Start("photo")
    /\ probe \in {PageStart(platform) : platform \in Platforms}

PageStep(q) ==
    /\ probe.fn = "page"
    /\ probe' = q
    /\ UNCHANGED <<app, conn, clientVars, threads, liveVars, now, fileVars, delivered>>

Await(p, kind) == [p EXCEPT !.tasks[kind] = @ + 1]
Settle(p, kind) == [p EXCEPT !.tasks[kind] = @ - 1]

\* stopCamera: the tracks of currentStream stop, currentStream = null
stopCamera(p) ==
    [p EXCEPT !.live = IF p.currentStream # 0 THEN @ \ {p.currentStream} ELSE @,
              !.currentStream = 0,
              !.cameraActive = FALSE,
              !.startBtn = "start"]

\* stopGyroscope, on the page record
stopGyroscopeOf(p) ==
    [p EXCEPT !.gyroActive = FALSE, !.startBtn = "start", !.gyroInterval = FALSE,
              !.captureBtnDisabled = TRUE]

\* startGyroscope after the permission check: gyroActive = true; setInterval
gyroStarted(p) == [p EXCEPT !.gyroActive = TRUE, !.gyroInterval = TRUE]

\* startGyroscope up to its first await, or to its end where nothing is awaited
startGyroscopeOf(p) ==
    IF p.platform = "prompt" THEN Await(p, "requestPermission") ELSE gyroStarted(p)

\* toggleSensors, up to the first await of startCamera
toggleSensors ==
    /\ probe.fn = "page"
    /\ IF probe.cameraActive /\ probe.gyroActive
       THEN PageStep(stopGyroscopeOf(stopCamera(probe)))
       ELSE IF ~probe.cameraActive /\ ~probe.gyroActive
            THEN /\ TasksOf(probe) < MaxTasks
                 /\ PageStep(Await(probe, "getUserMedia_toggle"))
            ELSE PageStep(probe)

\* what follows await startCamera() in the caller
AfterStartCamera(p, kind) ==
    IF kind = "getUserMedia_toggle" THEN startGyroscopeOf(p) ELSE p

\* startCamera after getUserMedia resolves
getUserMediaResolves(kind) ==
    /\ probe.fn = "page"
    /\ probe.tasks[kind] > 0
    /\ probe.opened < MaxStreams
    /\ LET id == probe.opened + 1 IN
       PageStep(AfterStartCamera(
           [Settle(probe, kind) EXCEPT !.opened = id, !.currentStream = id,
                                       !.live = @ \cup {id}, !.cameraActive = TRUE,
                                       !.startBtn = "stop"], kind))

\* startCamera after getUserMedia rejects: the catch block
getUserMediaRejects(kind) ==
    /\ probe.fn = "page"
    /\ probe.tasks[kind] > 0
    /\ PageStep(AfterStartCamera(
           [Settle(probe, kind) EXCEPT !.cameraActive = FALSE, !.startBtn = "start"],
           kind))

\* startGyroscope after requestPermission resolves
requestPermissionResolves(permission) ==
    /\ probe.fn = "page"
    /\ probe.tasks["requestPermission"] > 0
    /\ PageStep(IF permission = "granted"
                THEN gyroStarted(Settle(probe, "requestPermission"))
                ELSE Settle(probe, "requestPermission"))

\* startGyroscope after requestPermission rejects: the catch block
requestPermissionRejects ==
    /\ probe.fn = "page"
    /\ probe.tasks["requestPermission"] > 0
    /\ PageStep([Settle(probe, "requestPermission") EXCEPT !.gyroActive = FALSE,
                                                          !.startBtn = "start"])

\* updateCameraFps with the camera on: stopCamera(); setTimeout(startCamera, 100)
updateCameraFps ==
    /\ probe.fn = "page"
    /\ probe.cameraActive
    /\ TasksOf(probe) < MaxTasks
    /\ PageStep(Await(stopCamera(probe), "cameraTimer"))

\* updateGyroFps with the gyroscope on: stopGyroscope(); setTimeout(startGyroscope, 100)
updateGyroFps ==
    /\ probe.fn = "page"
    /\ probe.gyroActive
    /\ TasksOf(probe) < MaxTasks
    /\ PageStep(Await(stopGyroscopeOf(probe), "gyroTimer"))

\* the timer of updateCameraFps: startCamera() up to its await
cameraTimerFires ==
    /\ probe.fn = "page"
    /\ probe.tasks["cameraTimer"] > 0
    /\ PageStep(Await(Settle(probe, "cameraTimer"), "getUserMedia_timer"))

\* the timer of updateGyroFps: startGyroscope()
gyroTimerFires ==
    /\ probe.fn = "page"
    /\ probe.tasks["gyroTimer"] > 0
    /\ PageStep(startGyroscopeOf(Settle(probe, "gyroTimer")))

NextPage ==
    \/ toggleSensors
    \/ \E kind \in {"getUserMedia_toggle", "getUserMedia_timer"} :
          getUserMediaResolves(kind)
    \/ \E kind \in {"getUserMedia_toggle", "getUserMedia_timer"} :
          getUserMediaRejects(kind)
    \/ \E permission \in {"granted", "denied"} : requestPermissionResolves(permission)
    \/ requestPermissionRejects
    \/ updateCameraFps
    \/ updateGyroFps
    \/ cameraTimerFires
    \/ gyroTimerFires

\* the sensor controls of the phone page
SpecPage == InitPage /\ [][NextPage]_vars

\* ------------------------------------------------------------- food analysis
\* src/food_app_api_testing.py, GPT4oFoodAnalyzer.analyze_food_image; probe
\* holds the locals of one call, the number of requests.post calls made and
\* the files written under output_dir

\* how one call_gpt4o_vision ends: encode_image returns None (no request is
\* made), the status is not 200, requests.post or the reading of the response
\* raises, the content is a text, the content is the empty string
CallOutcomes == {"unreadable", "status", "raises", "text", "empty"}

\* the value call_gpt4o_vision returns
AnalysisOf(outcome) ==
    IF outcome = "text" THEN "text" ELSE IF outcome = "empty" THEN "" ELSE "None"

\* whether the call reaches requests.post
Posts(outcome) == IF outcome = "unreadable" THEN 0 ELSE 1

\* an analysis that attempts the cropped image whatever crop_image returned
AttemptCroppedAlways(p) == TRUE

\* if cropped_path:
AttemptCropped(p) == p.cropped_path # "None"

InitAnalyze ==
    /\ Start("photo")
    /\ probe \in [fn : {"analyze"}, exists : BOOLEAN, pc : {"check"},
                  original_analysis : {"None"}, cropped_path : {"None"},
                  cropped_analysis : {"None"}, results_file : {"None"},
                  result : {"pending"}, posts : {0}, written : {{}},
                  saved : {FALSE}, cropped_tried : {FALSE},
                  ended : [original : {"none"}, cropped : {"none"}]]

AnalyzeStep(pc, q) ==
    /\ probe.fn = "analyze"
    /\ probe.pc = pc
    /\ probe' = q
    /\ UNCHANGED <<app, conn, clientVars, threads, liveVars, now, fileVars, delivered>>

\* if not os.path.exists(image_path): return None
checkExists ==
    AnalyzeStep("check",
        IF probe.exists THEN [probe EXCEPT !.pc = "original"]
        ELSE [probe EXCEPT !.pc = "done", !.result = "None"])

\* Step 1: original_analysis = self.call_gpt4o_vision(image_path, "original")
analyzeOriginal(outcome) ==
    AnalyzeStep("original",
        [probe EXCEPT !.pc = "crop", !.original_analysis = AnalysisOf(outcome),
                      !.posts = @ + Posts(outcome), !.ended.original = outcome])

\* Step 2: cropped_path = self.crop_image(image_path); any exception inside
\* crop_image ends in return None
cropImage(cropped) ==
    AnalyzeStep("crop",
        IF cropped
        THEN [probe EXCEPT !.pc = "cropped", !.cropped_path = "cropped",
                           !.written = @ \cup {"cropped"}]
        ELSE [probe EXCEPT !.pc = "cropped"])

\* Step 3: if cropped_path: cropped_analysis = self.call_gpt4o_vision(cropped_path, ...)
analyzeCropped(outcome) ==
    /\ AttemptCropped(probe)
    /\ AnalyzeStep("cropped",
        [probe EXCEPT !.pc = "save", !.cropped_analysis = AnalysisOf(outcome),
                      !.posts = @ + Posts(outcome), !.cropped_tried = TRUE,
                      !.ended.cropped = outcome])

\* Step 3 skipped: cropped_analysis stays None
skipCropped ==
    /\ ~AttemptCropped(probe)
    /\ AnalyzeStep("cropped", [probe EXCEPT !.pc = "save"])

\* Step 5: results_file = self.save_results(...); a failed write returns None
\* and may leave the file it opened
saveResults(ok) ==
    \E left \in FailedWrite :
        AnalyzeStep("save",
            IF ok
            THEN [probe EXCEPT !.pc = "return", !.saved = TRUE,
                               !.results_file = "results",
                               !.written = @ \cup {"results"}]
            ELSE [probe EXCEPT !.pc = "return", !.saved = TRUE,
                               !.written = IF left = "truncated"
                                           THEN @ \cup {"results"} ELSE @])

\* results = {...}; return results
returnResults ==
    AnalyzeStep("return", [probe EXCEPT !.pc = "done", !.result = "record"])

NextAnalyze ==
    \/ checkExists
    \/ \E outcome \in CallOutcomes : analyzeOriginal(outcome)
    \/ \E cropped \in BOOLEAN : cropImage(cropped)
    \/ \E outcome \in CallOutcomes : analyzeCropped(outcome)
    \/ skipCropped
    \/ \E ok \in BOOLEAN : saveResults(ok)
    \/ returnResults

\* one call of analyze_food_image
SpecAnalyze == InitAnalyze /\ [][NextAnalyze]_vars

\* ------------------------------------------------------------- crop
\* src/food_app_api_testing.py, GPT4oFoodAnalyzer.crop_image; probe holds the
\* size of the opened image and the locals of one call

\* target_size=(768, 1024)
TargetSize == [width |-> 768, height |-> 1024]

\* widths and heights of the original: thin strips, small pictures, camera
\* formats, sizes equal to and beyond the target
CropSizes == {1, 2, 3, 36, 49, 98, 480, 640, 768, 1024, 1280, 1536, 2000, 4032}

\* o * (num / den) in double precision: the quotient is rounded before the
\* multiplication, and for these (o, num, den) among the sizes above the product
\* of an exact multiple falls just below the integer (49 * (1024 / 49) is
\* 1023.9999999999999); for every other combination of the sizes above int()
\* of the product is the floor of the exact value
ShortProducts == {<<49, 1024, 49>>, <<49, 1024, 98>>, <<98, 1024, 98>>}

\* int(o * ratio) for ratio = num / den
Scaled(o, num, den) ==
    ((o * num) \div den) - (IF <<o, num, den>> \in ShortProducts THEN 1 ELSE 0)

\* ratio = min(width_ratio, height_ratio), as numerator and denominator
RatioOf(w, h) ==
    IF TargetSize.width * h <= TargetSize.height * w
    THEN [num |-> TargetSize.width, den |-> w]
    ELSE [num |-> TargetSize.height, den |-> h]

InitCrop ==
    /\ Start("photo")
    /\ probe \in [fn : {"crop_image"}, original_width : CropSizes,
                  original_height : CropSizes, pc : {"scale"},
                  new_width : {0}, new_height : {0},
                  x_offset : {0}, y_offset : {0}, returned : {"pending"}]

CropStep(pc, q) ==
    /\ probe.fn = "crop_image"
    /\ probe.pc = pc
    /\ probe' = q
    /\ UNCHANGED <<app, conn, clientVars, threads, liveVars, now, fileVars, delivered>>

\* new_width = int(original_width * ratio); new_height = int(original_height * ratio)
scaleSize ==
    LET r == RatioOf(probe.original_width, probe.original_height) IN
    CropStep("scale",
        [probe EXCEPT !.pc = "resize",
                      !.new_width = Scaled(probe.original_width, r.num, r.den),
                      !.new_height = Scaled(probe.original_height, r.num, r.den)])

\* img.resize((new_width, new_height), ...), then the offsets, the paste and
\* the save: return cropped_path (a Pillow that accepts an empty size
\* included)
resizeAndPaste ==
    /\ CropStep("resize",
        [probe EXCEPT !.pc = "done", !.returned = "cropped_path",
                      !.x_offset = (TargetSize.width - probe.new_width) \div 2,
                      !.y_offset = (TargetSize.height - probe.new_height) \div 2])

\* img.resize raises for a width or height of 0 (a Pillow that rejects an
\* empty size): except Exception, return None
resizeRaises ==
    /\ probe.new_width < 1 \/ probe.new_height < 1
    /\ CropStep("resize", [probe EXCEPT !.pc = "done", !.returned = "None"])

NextCrop ==
    \/ scaleSize
    \/ resizeAndPaste
    \/ resizeRaises

\* one call of crop_image on an image that opens
SpecCrop == InitCrop /\ [][NextCrop]_vars

\* ------------------------------------------------------------- properties
IsCapture(t) == threads[t].kind = "capture"
IsGyro(t) == threads[t].kind = "gyro"
IsFrame(t) == threads[t].kind = "frame"

\* the files a capture wrote, in whole or in part
WroteFile(t) == \E k \in Stems : images[k].by = t \/ metas[k].by = t

\* the gate as the server could evaluate it: the envelope on a live vector
Armed(g) == checkGyroRange(g, GYRO_RANGES)

\* C1: a capture request received while the gate is BLOCKED (the live vector
\* is outside the envelope, or no vector was stored yet) is rejected: it does
\* not report success and writes neither the image nor the metadata file.
C1_BlockedCaptureRejected ==
    \A t \in Tids :
        (IsCapture(t) /\ threads[t].via = "page" /\ ~Armed(threads[t].acceptG))
            => (threads[t].result # "success" /\ ~WroteFile(t))

\* C2: whenever the page has sent a vector since the gyroscope was started,
\* its capture button is enabled exactly when the last vector sent is inside
\* the envelope, whatever was sent before.
C2_GateFollowsLastVector ==
    \A s \in Sids :
        lastVector[s].sent
            => (captureBtnDisabled[s] <=> ~checkGyroRange(lastVector[s].g, GYRO_RANGES))

\* C2 witness: the page sent an in-range vector and then an out-of-range one,
\* and the button, enabled in between, is disabled again.
C2_Witness ==
    /\ Len(threads) = 2
    /\ \A t \in {1, 2} : IsGyro(t) /\ threads[t].via = "page" /\ threads[t].sid = "a"
    /\ Armed(RoundVector(threads[1].vec))
    /\ ~Armed(RoundVector(threads[2].vec))
    /\ lastVector["a"].sent
    /\ captureBtnDisabled["a"]

\* C3: the vector in every metadata record is the live vector of the moment
\* the capture request was received.
C3_MetadataVectorAtAccept ==
    \A k \in Stems :
        metas[k].st = "ok" => metas[k].gyroscope = threads[metas[k].by].acceptG

\* C4: any two captures that report success have different file-name stems.
C4_UniqueStems ==
    \A t, u \in Tids :
        (t # u /\ IsCapture(t) /\ IsCapture(u)
         /\ threads[t].result = "success" /\ threads[u].result = "success")
            => threads[t].stem # threads[u].stem

\* the artifacts at the stem of capture t are whole and are the ones t wrote,
\* and the record holds the vector t read for it and names t's image
OwnArtifacts(t) ==
    LET k == threads[t].stem IN
    /\ images[k].st = "ok" /\ images[k].by = t
    /\ metas[k].st = "ok" /\ metas[k].by = t
    /\ metas[k].image_file = k
    /\ metas[k].gyroscope = threads[t].gv

\* C5: at the step that emits capture_success for a capture, both artifacts
\* exist, the record names the image that capture wrote, and the record's
\* vector is the one read for that capture.
C5_SuccessMeansOwnArtifacts ==
    [][\A t \in Tids :
          (At(t, "capture", "success") /\ threads'[t].pc = "done") => OwnArtifacts(t)]_vars

\* C6: no metadata record refers to an image that is missing or truncated.
C6_NoDanglingMetadata ==
    \A k \in Stems :
        metas[k].st = "ok" => images[metas[k].image_file].st = "ok"

AxisInRange(a, g, R) == Abs(Micro(g[a]) - R[a].mean) <= R[a].std_dev

\* the axes checked one after the other in the given order, stopping at the
\* first that fails
RECURSIVE CheckedInOrder(_, _, _)
CheckedInOrder(order, g, R) ==
    IF order = <<>> THEN TRUE
    ELSE IF ~AxisInRange(Head(order), g, R) THEN FALSE
    ELSE CheckedInOrder(Tail(order), g, R)

AxisOrders ==
    {o \in [1..3 -> Axes] : \A i, j \in 1..3 : i # j => o[i] # o[j]}

\* C7: the range check returns true exactly when every axis is within its
\* tolerance of its centre, the bound included, and checking the axes in any
\* order gives the same result.
C7_InRangeIffAllAxes ==
    probe.done =>
        /\ probe.inRange <=> (\A a \in Axes : AxisInRange(a, probe.g, probe.R))
        /\ \A o \in AxisOrders : CheckedInOrder(o, probe.g, probe.R) <=> probe.inRange

\* C7 witness: a vector with one axis exactly on its bound and the others
\* inside is evaluated and found in range.
C7_Witness ==
    /\ probe.done
    /\ probe.inRange
    /\ probe.R = ScenarioEnvelope
    /\ probe.g = [x |-> 1000, y |-> 6500, z |-> 9000]

AcceptedGyro == {t \in Tids : IsGyro(t) /\ ~VectorRaises(threads[t].vec)}

LastAccepted == CHOOSE t \in AcceptedGyro : \A u \in AcceptedGyro : u <= t

\* C8: once every received vector event is processed, the live vector is the
\* rounded vector of the event received last.
C8_LiveVectorIsLastReceived ==
    (AcceptedGyro # {} /\ \A t \in AcceptedGyro : threads[t].pc = "done")
        => gyroscope = RoundVector(threads[LastAccepted].vec)

\* the number of messages of event ev caused by handler invocation t in a log
RECURSIVE Count(_, _, _)
Count(log, ev, t) ==
    IF log = <<>> THEN 0
    ELSE (IF Head(log).ev = ev /\ Head(log).tid = t THEN 1 ELSE 0)
         + Count(Tail(log), ev, t)

\* delivered after one message m reached exactly the attached connections
OneToEveryAttached(m) ==
    \A s \in Sids :
        delivered'[s] = IF s \in attached THEN Append(delivered[s], m) ELSE delivered[s]

RoundedPayload(v) ==
    [x |-> RoundHundredth(Get(v.x).v), y |-> RoundHundredth(Get(v.y).v),
     z |-> RoundHundredth(Get(v.z).v)]

\* C9: the handler of an accepted vector event appends one gyro_update to the
\* messages of every attached connection and of no other, its payload is the
\* rounded vector the handler stored, no connection gets the update of one
\* event twice, and a handler that has finished has broadcast.
C9_GyroUpdateToEveryAttached ==
    /\ [][\A t \in Tids :
            (At(t, "gyro", "emit") /\ threads'[t].pc = "done")
                => /\ threads[t].gyro_data = RoundedPayload(threads[t].vec)
                   /\ OneToEveryAttached(
                          Msg("gyro_update", threads[t].gyro_data, NoFrame, t))]_vars
    /\ [][\A t \in Tids :
            (At(t, "gyro", "start") /\ threads'[t].pc = "stamp")
                => gyroscope' = RoundedPayload(threads[t].vec)]_vars
    /\ [](\A t \in AcceptedGyro, s \in Sids : Count(delivered[s], "gyro_update", t) <= 1)
    /\ [][\A t \in AcceptedGyro :
            (threads[t].pc # "done" /\ threads'[t].pc = "done")
                => At(t, "gyro", "emit")]_vars

\* C9 witness: an accepted vector event with unrounded components is done
\* and both connections, attached, hold its rounded vector.
C9_Witness ==
    \E t \in AcceptedGyro :
        /\ threads[t].pc = "done"
        /\ RoundVector(threads[t].vec) # RoundVectorIdentity(threads[t].vec)
        /\ \A s \in Sids :
              /\ s \in attached
              /\ Count(delivered[s], "gyro_update", t) = 1
              /\ delivered[s][Len(delivered[s])].vec = RoundVector(threads[t].vec)

\* C10: the handler of a frame event stores the frame and appends one
\* camera_update carrying it to the messages of every attached connection,
\* whatever was broadcast before; no connection gets the update of one
\* event twice, and a handler that has finished has broadcast.
C10_CameraUpdateToEveryAttached ==
    /\ [][\A t \in Tids :
            (At(t, "frame", "emit") /\ threads'[t].pc = "done")
                => OneToEveryAttached(
                       Msg("camera_update", ZeroVector, threads[t].frame, t))]_vars
    /\ [][\A t \in Tids :
            (At(t, "frame", "start") /\ threads'[t].pc # "start")
                => camera' = threads[t].frame]_vars
    /\ [](\A t \in Tids, s \in Sids :
            IsFrame(t) => Count(delivered[s], "camera_update", t) <= 1)
    /\ [][\A t \in Tids :
            (IsFrame(t) /\ threads[t].pc # "done" /\ threads'[t].pc = "done")
                => At(t, "frame", "emit")]_vars

\* C10 witness: two frame events with the same payload are done and a viewer
\* holds two camera_update messages with that payload, one for each.
C10_Witness ==
    /\ Len(threads) = 2
    /\ \A t \in {1, 2} : IsFrame(t) /\ threads[t].pc = "done"
    /\ threads[1].frame = threads[2].frame
    /\ \A t \in {1, 2} : Count(delivered["b"], "camera_update", t) = 1
    /\ camera = threads[1].frame

\* a message caused by handler invocation t is new in the log of s after the step
NewMessageOf(s, t) ==
    \E i \in 1..Len(delivered'[s]) :
        i > Len(delivered[s]) /\ delivered'[s][i].tid = t

\* C11: the step that reports a capture as successful delivers capture_success
\* to the requester and a message about that capture to every attached
\* connection, the requester or not.
C11_SuccessToRequesterNoticeToAll ==
    [][\A t \in Tids :
          (At(t, "capture", "success") /\ threads'[t].pc = "done")
              => \A s \in attached : NewMessageOf(s, t)]_vars

ErrorEvents == {"capture_error", "gyro_error"}

\* C12: an error message is received by the connection that sent the failing
\* event and by no other: whoever holds a capture_error or gyro_error sent the
\* event whose handler emitted it.
C12_ErrorsToOriginatorOnly ==
    \A s \in Sids :
        \A i \in 1..Len(delivered[s]) :
            delivered[s][i].ev \in ErrorEvents
                => threads[delivered[s][i].tid].sid = s

UpdateEvents == {"gyro_update", "camera_update"}

\* C13: in the messages of every connection, the gyro_update and camera_update
\* broadcasts stand in the order in which the server received the events that
\* caused them.
C13_BroadcastsInReceiptOrder ==
    \A s \in Sids :
        \A i, j \in 1..Len(delivered[s]) :
            (i < j /\ delivered[s][i].ev \in UpdateEvents
                   /\ delivered[s][j].ev \in UpdateEvents)
                => delivered[s][i].tid < delivered[s][j].tid

\* the update message the handler of event t broadcasts
UpdateOf(t) ==
    IF IsGyro(t) THEN Msg("gyro_update", threads[t].gyro_data, NoFrame, t)
    ELSE Msg("camera_update", ZeroVector, threads[t].frame, t)

\* C14: a connection that has not attached yet has received nothing; the step
\* that attaches it gives it connection_status and nothing else, whatever was
\* broadcast before; from then on every update broadcast is appended to its
\* messages while it is attached, and none after it detached.
C14_NoReplay ==
    /\ [](\A s \in Sids : conn[s] = "new" => delivered[s] = <<>>)
    /\ [][\A s \in Sids :
            (conn[s] = "new" /\ conn'[s] = "attached")
                => delivered'[s] = <<ConnectionStatus>>]_vars
    /\ [][\A t \in Tids :
            (threads[t].pc = "emit" /\ threads'[t].pc = "done")
                => \A s \in Sids :
                      delivered'[s] = IF conn[s] = "attached"
                                      THEN Append(delivered[s], UpdateOf(t))
                                      ELSE delivered[s]]_vars
    /\ [][\A s \in Sids :
            (conn[s] = "gone" \/ conn'[s] = "gone") => delivered'[s] = delivered[s]]_vars

\* C14 witness: two events were broadcast; connection b, attached after the
\* first broadcast, holds connection_status and the second update only, while
\* a holds both updates.
C14_Witness ==
    /\ Len(threads) = 2
    /\ \A t \in {1, 2} : threads[t].pc = "done" /\ threads[t].result = "ok"
    /\ Len(delivered["a"]) = 3
    /\ delivered["a"][2] = UpdateOf(1)
    /\ delivered["a"][3] = UpdateOf(2)
    /\ delivered["b"] = <<ConnectionStatus, UpdateOf(2)>>
    /\ conn["b"] = "attached"

\* C15: a step that attaches or detaches a connection leaves the camera
\* frame, the vector and the timestamp of the live state as they were.
C15_AttachDetachLeavesLiveState ==
    [][(\E s \in Sids : conn'[s] # conn[s])
          => (camera' = camera /\ gyroscope' = gyroscope /\ timestamp' = timestamp)]_vars

\* C15 witness: connection b received the broadcast of a frame, pressed
\* capture and detached, all after the frame was stored; the live state still
\* holds that frame and its timestamp.
C15_Witness ==
    /\ Len(threads) = 2
    /\ IsFrame(1) /\ threads[1].pc = "done"
    /\ IsCapture(2) /\ threads[2].sid = "b" /\ threads[2].via = "page"
    /\ conn["b"] = "gone"
    /\ camera = threads[1].frame
    /\ camera # NoFrame
    /\ timestamp.by = 1

\* the next statement of handler invocation t
HandlerStep(t) ==
    \/ gyroStore(t) \/ gyroStamp(t) \/ gyroEmit(t)
    \/ frameStore(t) \/ frameStamp(t) \/ frameEmit(t)
    \/ captureOpen(t) \/ captureSave(t) \/ captureReadTimestamp(t)
    \/ captureReadGyro(t) \/ captureWrite(t) \/ captureSuccess(t) \/ captureExcept(t)

\* C16: the step in which a vector event or a capture fails, and the step
\* that reports the failure, leave the live state as it was; a failed event
\* causes no message but its error message; no handler is ever blocked, and a
\* vector event with numeric components ends accepted whatever failed before.
C16_FailureLeavesSessionIntact ==
    /\ [][\A t \in Tids :
            (threads'[t] # threads[t]
             /\ (threads'[t].result = "error" \/ threads'[t].pc = "except"))
                => (camera' = camera /\ gyroscope' = gyroscope
                    /\ timestamp' = timestamp)]_vars
    /\ [](\A t \in Tids :
            threads[t].result = "error"
                => \A s \in Sids : \A i \in 1..Len(delivered[s]) :
                      delivered[s][i].tid = t => delivered[s][i].ev \in ErrorEvents)
    /\ [](\A t \in Tids : threads[t].pc # "done" => ENABLED HandlerStep(t))
    /\ [](\A t \in AcceptedGyro : threads[t].pc = "done" => threads[t].result = "ok")

\* C16 witness: a vector event with a non-numeric component failed, a later
\* numeric one was stored and broadcast after the error was reported.
C16_Witness ==
    /\ Len(threads) = 2
    /\ IsGyro(1) /\ threads[1].result = "error"
    /\ IsGyro(2) /\ threads[2].result = "ok"
    /\ gyroscope = RoundVector(threads[2].vec)
    /\ gyroscope # ZeroVector
    /\ timestamp.by = 2
    /\ delivered["b"] = <<ConnectionStatus, Msg("gyro_error", ZeroVector, NoFrame, 1),
                          UpdateOf(2)>>

GyroUpdatesOf(t) ==
    {s \in Sids : \E i \in 1..Len(delivered[s]) :
        delivered[s][i].ev = "gyro_update" /\ delivered[s][i].tid = t}

\* the handler of t has not stored, stamped or broadcast anything
Rejected(t) ==
    /\ threads[t].pc \in {"start", "done"}
    /\ threads[t].result # "ok"
    /\ timestamp.by # t
    /\ GyroUpdatesOf(t) = {}

DefaultedRounded(v) ==
    [a \in Axes |-> IF v[a].k = "missing" THEN 0 ELSE RoundHundredth(v[a].v)]

C18_NoFrameCaptureFails ==
    \A t \in Tids :
        (IsCapture(t) /\ camera = NoFrame)
            => (threads[t].result # "success" /\ ~WroteFile(t))

\* C18 amended: a capture whose request carries no decodable frame fails with
\* capture_error and writes no artifacts, whatever the camera field holds.
C18_UndecodableCaptureFails ==
    \A t \in Tids :
        (IsCapture(t) /\ threads[t].frame = Junk)
            => /\ threads[t].pc \in {"start", "done"}
               /\ ~WroteFile(t)
               /\ threads[t].pc = "done"
                     => /\ threads[t].result = "error"
                        /\ \A s \in Sids :
                              Count(delivered[s], "capture_success", t) = 0

\* C18 witness: a capture request without a decodable frame ended in
\* capture_error at its sender, with the camera field still null and no file
\* written.
C18_Witness ==
    \E t \in Tids :
        /\ IsCapture(t) /\ threads[t].frame = Junk
        /\ threads[t].result = "error"
        /\ camera = NoFrame
        /\ Count(delivered[threads[t].sid], "capture_error", t) = 1
        /\ \A k \in Stems : images[k].st = "absent" /\ metas[k].st = "absent"

\* C19 as stated: the image of a capture that reported success is the frame
\* the live state's camera field held when the request was received.
C19_ImageIsLiveFrame ==
    \A k \in Stems :
        (images[k].st = "ok" /\ threads[images[k].by].result = "success")
            => images[k].frame = threads[images[k].by].acceptC

\* C19 amended: the image a capture stores is the frame carried by its own
\* request, whatever the camera field held.
C19_ImageIsRequestFrame ==
    \A k \in Stems :
        images[k].st = "ok"
            => /\ IsCapture(images[k].by)
               /\ images[k].frame = threads[images[k].by].frame
               /\ images[k].frame \in PageFrames

\* C19 witness: a capture sent by the phone page reported success and its
\* image is the canvas frame of the request, while the camera field is null.
C19_Witness ==
    \E t \in Tids :
        /\ IsCapture(t) /\ threads[t].via = "page" /\ threads[t].result = "success"
        /\ images[threads[t].stem] = [st |-> "ok", frame |-> "f1", by |-> t]
        /\ threads[t].frame = "f1"
        /\ camera = NoFrame

\* C20: the server's rounding applied to its own result changes nothing, and
\* a vector the phone page rounded is stored by the server as it was sent.
C20_RoundingIdempotent ==
    /\ probe.step = 3 => probe.stored = probe.once
    /\ (probe.step >= 2 /\ probe.via = "page") => probe.stored = probe.sent

\* C20 witness: a reading with ties in x and y (-0.125, 0.005), which the page
\* rounds away from zero and the server would round to even, went through
\* the page and the server twice.
C20_Witness ==
    /\ probe.step = 3
    /\ probe.via = "page"
    /\ probe.raw = [x |-> -125, y |-> 5, z |-> 7684]
    /\ probe.sent = [x |-> -130, y |-> 10, z |-> 7680]
    /\ probe.stored = probe.sent

\* C21: as long as the server has received no event, the live state holds
\* no frame and the zero vector, its timestamp is the one of the start, and
\* the capture button of every page is disabled.
C21_InitialState ==
    threads = <<>>
        => /\ camera = NoFrame
           /\ gyroscope = ZeroVector
           /\ timestamp = [at |-> 0, by |-> 0]
           /\ \A s \in Sids : captureBtnDisabled[s]

\* C21 witness: both pages are attached, the phone has started its
\* gyroscope and the clock has advanced, and no event was received yet.
C21_Witness ==
    /\ threads = <<>>
    /\ attached = Sids
    /\ gyroActive["a"]
    /\ now = 1
    /\ camera = NoFrame
    /\ captureBtnDisabled["a"]

C23_FrameAndVectorEffects ==
    [][\A t \in Tids :
          threads'[t] # threads[t]
              => /\ IsFrame(t)
                    => /\ gyroscope' = gyroscope
                       /\ camera' = IF threads[t].pc = "start"
                                    THEN threads[t].frame ELSE camera
                 /\ IsGyro(t) => camera' = camera]_vars

\* C23 witness: two frame events with different payloads were handled and
\* the stored frame is the payload written last, not the first one.
C23_Witness ==
    /\ Len(threads) = 2
    /\ \A t \in {1, 2} : IsFrame(t) /\ threads[t].pc = "done"
    /\ threads[1].frame = "f1"
    /\ threads[2].frame = "f2"
    /\ timestamp.by = 2
    /\ camera = "f2"

\* handler invocation t has accessed the live state and will access it again:
\* an update between its two assignments, a capture between its two reads
InLiveStateSection(t) ==
    \/ (IsGyro(t) \/ IsFrame(t)) /\ threads[t].pc = "stamp"
    \/ IsCapture(t) /\ threads[t].pc = "read_gyro"

\* C24: at any time at most one handler invocation is between its first and
\* its last access to the live state.
C24_NoConcurrentHandlers ==
    \A t, u \in Tids :
        (InLiveStateSection(t) /\ InLiveStateSection(u)) => t = u

\* C25: the timestamp and the vector of a metadata record belong to one value
\* of the live state: the timestamp is the one set by the update that stored
\* the record's vector, or both are the initial ones.
C25_SnapshotConsistent ==
    \A k \in Stems :
        metas[k].st = "ok"
            => LET w == metas[k].timestamp.by
               IN  metas[k].gyroscope =
                      IF w = 0 THEN ZeroVector ELSE threads[w].gyro_data

\* a capture between the start of image.save and its report
Persisting(t) ==
    IsCapture(t) /\ threads[t].pc \in {"save", "read_ts", "read_gyro", "write", "success", "except"}

\* C26: while a capture is being persisted and is not yet reported, every
\* frame or vector handler that has not finished can take its next step and
\* so can the capture; a capture that has finished has reported a result.
C26_PersistenceDoesNotBlock ==
    \A c \in Tids :
        /\ Persisting(c)
              => /\ ENABLED HandlerStep(c)
                 /\ \A t \in Tids :
                       ((IsGyro(t) \/ IsFrame(t)) /\ threads[t].pc # "done")
                           => ENABLED HandlerStep(t)
        /\ (IsCapture(c) /\ threads[c].pc = "done")
              => threads[c].result \in {"success", "error"}

\* C26 witness: a capture has saved its image and not yet written its
\* metadata; a vector event received after it is stored and broadcast.
C26_Witness ==
    /\ Len(threads) = 2
    /\ IsCapture(1) /\ threads[1].pc = "write"
    /\ images[threads[1].stem].by = 1
    /\ IsGyro(2) /\ threads[2].result = "ok"
    /\ gyroscope = threads[2].gyro_data
    /\ GyroUpdatesOf(2) # {}

\* the requester of handler invocation t has detached
Orphaned(t) == conn[threads[t].sid] = "gone"

\* C27: the step that detaches a connection changes no handler invocation
\* and no file; a capture whose requester has detached can still take every
\* step it could take otherwise, the writes of both artifacts included.
C27_DetachDoesNotCancel ==
    /\ [][(\E s \in Sids : conn[s] = "attached" /\ conn'[s] = "gone")
            => (threads' = threads /\ images' = images /\ metas' = metas)]_vars
    /\ [](\A t \in Tids :
            (IsCapture(t) /\ Orphaned(t))
                => /\ threads[t].pc # "done" => ENABLED HandlerStep(t)
                   /\ threads[t].pc = "save"
                         => ENABLED (captureSave(t)
                                     /\ images'[threads[t].stem].st = "ok"
                                     /\ images'[threads[t].stem].by = t)
                   /\ threads[t].pc = "write"
                         => ENABLED (captureWrite(t)
                                     /\ metas'[threads[t].stem].st = "ok"
                                     /\ metas'[threads[t].stem].by = t))

\* C27 witness: the requester of a capture detached before the report; the
\* capture wrote both artifacts and reported success, which reached the
\* other connection and not the requester.
C27_Witness ==
    \E t \in Tids :
        /\ IsCapture(t) /\ threads[t].sid = "b" /\ threads[t].result = "success"
        /\ Orphaned(t)
        /\ OwnArtifacts(t)
        /\ Count(delivered["b"], "capture_success", t) = 0
        /\ Count(delivered["a"], "capture_success", t) = 1

\* C28: the vector of every metadata record written for a capture that the
\* phone page sent is inside the envelope GYRO_RANGES on all three axes.
C28_RecordsInsideEnvelope ==
    \A k \in Stems :
        (metas[k].st = "ok" /\ threads[metas[k].by].via = "page")
            => checkGyroRange(metas[k].gyroscope, GYRO_RANGES)

\* C29: while gyroActive is false (from stopGyroscope until startGyroscope runs
\* again) the phone page has emitted no gyro_data and its capture button is
\* disabled, whatever callbacks of the last tick are still registered
C29_StopSilencesProducer ==
    \A s \in Sids :
        ~gyroActive[s] => (~lastVector[s].sent /\ captureBtnDisabled[s])

\* C30: whenever a sensor of the phone page runs and no start is in progress
\* (no promise or timer is outstanding), a click on the start button
\* (toggleSensors) changes the page: the toggle is never without effect, so
\* what runs can be stopped with it
C30_ToggleNeverStuck ==
    (TasksOf(probe) = 0 /\ (probe.cameraActive \/ probe.gyroActive))
        => ENABLED (toggleSensors /\ probe' # probe)

\* C31: every stream getUserMedia has opened and whose tracks still run is the
\* one currentStream refers to, so at most one stream is live and stopCamera
\* releases it
C31_NoOrphanStream ==
    /\ probe.live \subseteq {probe.currentStream}
    /\ Cardinality(probe.live) <= 1

\* C32: no statement of a capture handler, on the way to capture_success or
\* to capture_error, changes camera, gyroscope or timestamp of the live state,
\* and the frame a capture request carries is never the latest frame of the
\* photo server
C32_CaptureLeavesLiveState ==
    /\ [][\A t \in Tids :
            (IsCapture(t) /\ threads'[t] # threads[t])
                => (camera' = camera /\ gyroscope' = gyroscope
                    /\ timestamp' = timestamp)]_vars
    /\ [](\A t \in Tids :
            (IsCapture(t) /\ threads[t].frame # NoFrame)
                => camera # threads[t].frame)

\* C32 witness: one capture ended with capture_success and its image saved,
\* another ended with capture_error, and the live state is the initial one
C32_Witness ==
    /\ \E t \in Tids : IsCapture(t) /\ threads[t].result = "success"
                       /\ threads[t].frame # NoFrame
                       /\ \E k \in Stems : images[k].st = "ok" /\ images[k].by = t
    /\ \E t \in Tids : IsCapture(t) /\ threads[t].result = "error"
    /\ camera = NoFrame /\ gyroscope = ZeroVector /\ timestamp = [at |-> 0, by |-> 0]

\* PC page: gyroFileCount++ on every capture_success the connection receives
RECURSIVE CountSuccess(_)
CountSuccess(log) ==
    IF log = <<>> THEN 0
    ELSE CountSuccess(Tail(log)) + (IF Head(log).ev = "capture_success" THEN 1 ELSE 0)

gyroFileCount(s) == CountSuccess(delivered[s])

\* PC page captureImage: captureCount++ with every capture_image it emits
captureCount(s) ==
    Cardinality({t \in Tids : IsCapture(t) /\ threads[t].sid = s
                              /\ threads[t].via = "page"})

\* C33: on the relay server the number of capture_success confirmations a
\* connection has received ('Gyro Files' of a PC monitor) never exceeds the
\* number of capture requests its page has sent ('Captured')
C33_FilesAtMostCaptured ==
    \A s \in Sids : gyroFileCount(s) <= captureCount(s)

\* C33 witness: the PC monitor clicked capture once and its confirmation came
\* back, while the phone is attached and has received none
C33_Witness ==
    /\ app = "relay"
    /\ captureCount("b") = 1
    /\ gyroFileCount("b") = 1
    /\ "a" \in attached
    /\ gyroFileCount("a") = 0

\* C34: a call of analyze_food_image for an existing path ends with
\* save_results called and a result record returned, whatever failed on the
\* way; the cropped image is analysed only when crop_image returned a path;
\* a call for a path that does not exist returns None, makes no request and
\* writes no file
C34_AnalysisAlwaysReported ==
    /\ (probe.pc = "done" /\ probe.exists)
          => (probe.saved /\ probe.result = "record")
    /\ probe.exists => ENABLED NextAnalyze \/ probe.pc = "done"
    /\ probe.cropped_tried => probe.cropped_path # "None"
    /\ (probe.pc = "done" /\ ~probe.exists)
          => (probe.result = "None" /\ probe.posts = 0 /\ probe.written = {}
              /\ ~probe.saved)

\* C34 witness: the original analysis failed on the request, crop_image
\* failed, the cropped analysis was skipped, save_results failed, and the
\* call still returned its record
C34_Witness ==
    /\ probe.fn = "analyze" /\ probe.pc = "done" /\ probe.exists
    /\ probe.ended.original = "raises"
    /\ probe.cropped_path = "None" /\ ~probe.cropped_tried
    /\ probe.results_file = "None"
    /\ probe.result = "record"

\* C35: once crop_image has computed the scaled size of an original with
\* positive width and height, new_width <= 768 and new_height <= 1024 with
\* one of them equal to its target, both are at least 1, and both paste
\* offsets are non-negative
C35_CropFitsTarget ==
    (probe.fn = "crop_image" /\ probe.pc # "scale")
        => /\ probe.new_width <= TargetSize.width
           /\ probe.new_height <= TargetSize.height
           /\ (probe.new_width = TargetSize.width
               \/ probe.new_height = TargetSize.height)
           /\ probe.new_width >= 1 /\ probe.new_height >= 1
           /\ probe.x_offset >= 0 /\ probe.y_offset >= 0

====
